---- MODULE Spec2Model ----
(***************************************************************************)
(* Model of the two scripts of wifi_speed_analysis:                        *)
(*   speedtest.py  - the speed test logger (run_scheduled_tests and the    *)
(*                   functions it calls), specification SpecSpeed;         *)
(*   upload.py     - the batch uploader (upload_csv_to_bigquery),          *)
(*                   specifications SpecUpload (one invocation, run again  *)
(*                   and again) and SpecConcurrent (two overlapping        *)
(*                   invocations on the same directories).                 *)
(* The two scripts share no state; each specification leaves the other     *)
(* script's variables unchanged.                                           *)
(***************************************************************************)
EXTENDS Integers, Sequences, FiniteSets, TLC

\* ------------------------------------------------------------------ bounds

\* run_speed_test calls one run of the logger may start
MaxCycles == 3
\* largest configured interval (the smallest modelled one is -1)
MaxInterval == 1

\* =================================================================
\*                      speedtest.py
\* =================================================================

VARIABLES
    single_test,    \* run_scheduled_tests' single_test argument
    interval,       \* run_scheduled_tests' interval argument
    pc,             \* where run_scheduled_tests is
    results,        \* the local variable results: None or <<record>>
    file_exists,    \* save_results' local variable file_exists
    fileOnDisk,     \* whether output_file exists
    fileRows,       \* the rows of output_file, first to last
    fileInit,       \* the rows output_file held when the process started
    events,         \* history: the calls made, in order ("test", "save", "sleep")
    testLog,        \* history: what each completed run_speed_test returned
    saveLog,        \* history: per save_results call, its record and how it ended
    slept,          \* history: the duration of every completed time.sleep
    interruptedAt,  \* history: where the operator's interrupt arrived ("" if none did)
    ended           \* how run_scheduled_tests ended ("" while it runs): by a return
                    \* or with the named exception leaving it

speedVars == <<single_test, interval, pc, results, file_exists, fileOnDisk,
               fileRows, fileInit, events, testLog, saveLog, slept, interruptedAt, ended>>

\* upload.py: the state of the directories, the warehouse and each invocation
VARIABLES
    active,         \* the invocations of upload_csv_to_bigquery that exist
    source,         \* the *.csv files in csv_directory
    processed,      \* the files in processed_directory
    processedDir,   \* whether processed_directory exists
    loads,          \* per file, the load jobs the warehouse completed
    errlog,         \* the logging.error entries of upload_log.txt
    upc,            \* per invocation, where upload_csv_to_bigquery is
    run,            \* per invocation, the number of the run (0 before the first)
    csv_files,      \* per invocation, the local variable csv_files
    idx,            \* per invocation, the position of the for loop in csv_files
    fstate,         \* per invocation, the state of each file in this run
    submitted,      \* per invocation, the load_table_from_file calls of this run, per file
    completed,      \* per invocation, the job.result() calls of this run that returned, per file
    uended          \* per invocation, how the run ended ("" while it runs)

uploadVars == <<active, source, processed, processedDir, loads, errlog, upc, run,
                csv_files, idx, fstate, submitted, completed, uended>>

vars == <<speedVars, uploadVars>>

CSV_FIELDS == <<"timestamp", "download_mbps", "upload_mbps", "ping_ms", "jitter_ms",
                "server_name", "server_id", "server_location", "isp">>

\* Python's None for the variable results; a record r is held as <<r>>
None == <<>>

\* the leaves of the tool's JSON document that run_speed_test reads
FullKeys == {"download.bandwidth", "upload.bandwidth", "ping.latency", "ping.jitter",
             "server.name", "server.id", "server.location", "server.country", "isp"}

\* the values the tool reports (bandwidth in bytes/s, times in thousandths of a ms)
DocValue(key) ==
    CASE key = "download.bandwidth" -> 1234567
      [] key = "upload.bandwidth"   -> 250625
      [] key = "ping.latency"       -> 18345
      [] key = "ping.jitter"        -> 1255
      [] key = "server.id"          -> 4242
      [] key = "server.name"        -> "Safaricom"
      [] key = "server.location"    -> "Nairobi"
      [] key = "server.country"     -> "Kenya"
      [] OTHER                      -> "Zuku"

\* What one invocation of the speedtest tool can do: the executable is missing,
\* it exits non-zero, it prints something that is not JSON, or it prints a JSON
\* document holding the given leaves.
ToolOutcomes ==
    {[kind |-> k, keys |-> {}] : k \in {"missing", "nonzero", "notjson"}}
    \cup {[kind |-> "json", keys |-> ks] :
             ks \in {FullKeys, FullKeys \ {"ping.jitter"}, FullKeys \ {"isp"}}}

\* round(num / den, 2) in hundredths, ties to even as Python's round
Round2(num, den) ==
    LET scaled == num * 100
        q == scaled \div den
        r == scaled % den
    IN  IF 2 * r > den \/ (2 * r = den /\ q % 2 = 1) THEN q + 1 ELSE q

\* the dictionary test_results, numbers in hundredths
test_results(now, keys) ==
    [timestamp       |-> now,
     download_mbps   |-> Round2(DocValue("download.bandwidth") * 8, 1000000),
     upload_mbps     |-> Round2(DocValue("upload.bandwidth") * 8, 1000000),
     ping_ms         |-> Round2(DocValue("ping.latency"), 1000),
     jitter_ms       |-> IF "ping.jitter" \in keys
                         THEN Round2(DocValue("ping.jitter"), 1000) ELSE 0,
     server_name     |-> DocValue("server.name"),
     server_id       |-> DocValue("server.id"),
     server_location |-> <<DocValue("server.location"), DocValue("server.country")>>,
     isp             |-> DocValue("isp")]

\* the leaves whose absence makes a subscript of run_speed_test raise KeyError
RequiredKeys == FullKeys \ {"ping.jitter"}

\* The exception the try block of run_speed_test raises, "" when it raises none
RunSpeedTestRaises(outcome) ==
    CASE outcome.kind = "missing" -> "FileNotFoundError"
      [] outcome.kind = "nonzero" -> "CalledProcessError"
      [] outcome.kind = "notjson" -> "JSONDecodeError"
      [] OTHER -> IF RequiredKeys \subseteq outcome.keys THEN "" ELSE "KeyError"

\* the except clauses of run_speed_test, first to last (lines 97, 101, 104)
Handlers == <<"CalledProcessError", "JSONDecodeError", "Exception">>

\* whether an except clause for cls catches exc; every exception the try block
\* raises by itself derives from Exception
Catches(cls, exc) == cls = exc \/ cls = "Exception"

\* a mutant of run_speed_test: the last clause, except Exception, is missing
run_speed_test_NoCatchAll(now, outcome) ==
    LET exc == RunSpeedTestRaises(outcome)
    IN  IF exc = "" THEN [raised |-> "", value |-> <<test_results(now, outcome.keys)>>]
        ELSE IF \E h \in 1..2 : Catches(Handlers[h], exc)
             THEN [raised |-> "", value |-> None]
             ELSE [raised |-> exc, value |-> None]

\* One call of run_speed_test: the value it returns (every except clause returns
\* None), or the exception that leaves it when no clause catches it
run_speed_test(now, outcome) ==
    LET exc == RunSpeedTestRaises(outcome)
    IN  IF exc = "" THEN [raised |-> "", value |-> <<test_results(now, outcome.keys)>>]
        ELSE IF \E h \in 1..Len(Handlers) : Catches(Handlers[h], exc)
             THEN [raised |-> "", value |-> None]
             ELSE [raised |-> exc, value |-> None]

\* csv.DictWriter's text of one value
Cell(v) == ToString(v)

\* the row writer.writeheader() writes
HeaderRow == CSV_FIELDS

\* the row writer.writerow(results) writes: the values in CSV_FIELDS order
DataRow(rec) == [i \in 1..Len(CSV_FIELDS) |-> Cell(rec[CSV_FIELDS[i]])]


\* a row some earlier process wrote
OldRow == DataRow(test_results(0, FullKeys))

\* the states output_file can be in when the process starts
InitialFiles ==
    {[onDisk |-> FALSE, rows |-> <<>>],
     [onDisk |-> TRUE,  rows |-> <<>>],
     [onDisk |-> TRUE,  rows |-> <<HeaderRow>>],
     [onDisk |-> TRUE,  rows |-> <<HeaderRow, OldRow>>]}

\* the number of run_speed_test calls started so far
TestCalls == Cardinality({i \in 1..Len(events) : events[i] = "test"})

\* the sequence s with the status of its last entry set
MarkLast(s, st) == [s EXCEPT ![Len(s)].status = st]

\* the positions where an operator interrupt (Ctrl+C) is inside the try of lines 141-151
InLoop == {"call_test", "in_test", "save", "save_header", "save_row", "sleep"}

\* the state when run_scheduled_tests is called (line 126)
SpeedInit ==
    /\ single_test \in BOOLEAN
    /\ interval \in (0 - 1)..MaxInterval
    /\ pc = "check"
    /\ results = None
    /\ file_exists = FALSE
    /\ \E f \in InitialFiles :
          /\ fileOnDisk = f.onDisk
          /\ fileRows = f.rows
          /\ fileInit = f
    /\ events = <<>>
    /\ testLog = <<>>
    /\ saveLog = <<>>
    /\ slept = <<>>
    /\ interruptedAt = ""
    /\ ended = ""

\* a mutant of FinishCycle: the return of line 135 is missing
FinishCycle_NoReturn ==
    pc' = "sleep" /\ UNCHANGED ended

\* the end of one cycle: lines 135 (return) and 148 (on to the sleep)
FinishCycle ==
    IF single_test
    THEN pc' = "end" /\ ended' = "return"
    ELSE pc' = "sleep" /\ UNCHANGED ended

\* line 128: check_speedtest_cli() finds the tool or does not
check_speedtest_cli ==
    /\ pc = "check"
    /\ \E installed \in BOOLEAN :
          IF ~installed
          THEN pc' = "end" /\ ended' = "no_tool_return"
          ELSE /\ pc' = IF single_test THEN "call_test" ELSE "banner"
               /\ UNCHANGED ended
    /\ UNCHANGED <<single_test, interval, results, file_exists, fileOnDisk, fileRows,
                   fileInit, events, testLog, saveLog, slept, interruptedAt>>
    /\ UNCHANGED uploadVars

\* lines 137-139: the three prints before the try
PrintBanner ==
    /\ pc = "banner"
    /\ pc' = "call_test"
    /\ UNCHANGED <<single_test, interval, results, file_exists, fileOnDisk, fileRows,
                   fileInit, events, testLog, saveLog, slept, ended, interruptedAt>>
    /\ UNCHANGED uploadVars

\* lines 132 and 143: run_speed_test is called and starts the tool
StartTest ==
    /\ pc = "call_test"
    /\ TestCalls < MaxCycles
    /\ events' = Append(events, "test")
    /\ pc' = "in_test"
    /\ UNCHANGED <<single_test, interval, results, file_exists, fileOnDisk, fileRows,
                   fileInit, testLog, saveLog, slept, ended, interruptedAt>>
    /\ UNCHANGED uploadVars

\* lines 66-106 and the test of results at 133 and 144
RunSpeedTest ==
    /\ pc = "in_test"
    /\ \E outcome \in ToolOutcomes :
          LET call == run_speed_test(TestCalls, outcome)
          IN  IF call.raised # ""
              THEN /\ pc' = "end"
                   /\ ended' = call.raised
                   /\ UNCHANGED <<results, testLog>>
              ELSE /\ results' = call.value
                   /\ testLog' = Append(testLog, [tool |-> outcome, returned |-> call.value])
                   /\ IF call.value # None
                      THEN pc' = "save" /\ UNCHANGED ended
                      ELSE FinishCycle
    /\ UNCHANGED <<single_test, interval, file_exists, fileOnDisk, fileRows,
                   fileInit, events, saveLog, slept, interruptedAt>>
    /\ UNCHANGED uploadVars

\* a mutant of save_results_open: the file is opened with mode 'w', which truncates it
save_results_open_Truncating ==
    /\ pc = "save"
    /\ events' = Append(events, "save")
    /\ file_exists' = fileOnDisk
    /\ \E ok \in BOOLEAN :
          IF ok
          THEN /\ fileOnDisk' = TRUE
               /\ fileRows' = <<>>
               /\ saveLog' = Append(saveLog, [rec |-> results[1], status |-> "running"])
               /\ pc' = "save_header"
               /\ UNCHANGED ended
          ELSE /\ saveLog' = Append(saveLog, [rec |-> results[1], status |-> "failed"])
               /\ FinishCycle
               /\ UNCHANGED <<fileOnDisk, fileRows>>
    /\ UNCHANGED <<single_test, interval, results, fileInit, testLog, slept, interruptedAt>>
    /\ UNCHANGED uploadVars

\* lines 110-113: save_results notes whether the file exists and opens it for
\* appending, which creates it; an open that raises is caught at line 123
save_results_open ==
    /\ pc = "save"
    /\ events' = Append(events, "save")
    /\ file_exists' = fileOnDisk
    /\ \E ok \in BOOLEAN :
          IF ok
          THEN /\ fileOnDisk' = TRUE
               /\ saveLog' = Append(saveLog, [rec |-> results[1], status |-> "running"])
               /\ pc' = "save_header"
               /\ UNCHANGED ended
          ELSE /\ saveLog' = Append(saveLog, [rec |-> results[1], status |-> "failed"])
               /\ FinishCycle
               /\ UNCHANGED fileOnDisk
    /\ UNCHANGED <<single_test, interval, results, fileRows, fileInit, testLog, slept, interruptedAt>>
    /\ UNCHANGED uploadVars

\* lines 117-118: the header, when the file did not exist; a write that raises is
\* caught at line 123
save_results_header ==
    /\ pc = "save_header"
    /\ IF file_exists
       THEN /\ pc' = "save_row"
            /\ UNCHANGED <<fileRows, saveLog, ended>>
       ELSE \E ok \in BOOLEAN :
               IF ok
               THEN /\ fileRows' = Append(fileRows, HeaderRow)
                    /\ pc' = "save_row"
                    /\ UNCHANGED <<saveLog, ended>>
               ELSE /\ saveLog' = MarkLast(saveLog, "failed")
                    /\ FinishCycle
                    /\ UNCHANGED fileRows
    /\ UNCHANGED <<single_test, interval, results, file_exists, fileOnDisk, fileInit,
                   events, testLog, slept, interruptedAt>>
    /\ UNCHANGED uploadVars

\* lines 120-124: the record's row, then the file is closed
save_results_row ==
    /\ pc = "save_row"
    /\ \E ok \in BOOLEAN :
          IF ok
          THEN /\ fileRows' = Append(fileRows, DataRow(results[1]))
               /\ saveLog' = MarkLast(saveLog, "saved")
          ELSE /\ saveLog' = MarkLast(saveLog, "failed")
               /\ UNCHANGED fileRows
    /\ FinishCycle
    /\ UNCHANGED <<single_test, interval, results, file_exists, fileOnDisk, fileInit,
                   events, testLog, slept, interruptedAt>>
    /\ UNCHANGED uploadVars

\* a mutant of Sleep: the loop sleeps twice
Sleep_Twice ==
    /\ pc = "sleep"
    /\ IF interval < 0
       THEN /\ pc' = "end"
            /\ ended' = "ValueError"
            /\ UNCHANGED <<slept, events>>
       ELSE /\ slept' = Append(Append(slept, interval), interval)
            /\ events' = Append(Append(events, "sleep"), "sleep")
            /\ pc' = "call_test"
            /\ UNCHANGED ended
    /\ UNCHANGED <<single_test, interval, results, file_exists, fileOnDisk, fileRows,
                   fileInit, testLog, saveLog, interruptedAt>>
    /\ UNCHANGED uploadVars

\* lines 148-149: time.sleep(interval) to its end; time.sleep raises ValueError
\* for a negative length, which no handler of run_scheduled_tests catches
Sleep ==
    /\ pc = "sleep"
    /\ IF interval < 0
       THEN /\ pc' = "end"
            /\ ended' = "ValueError"
            /\ UNCHANGED <<slept, events>>
       ELSE /\ slept' = Append(slept, interval)
            /\ events' = Append(events, "sleep")
            /\ pc' = "call_test"
            /\ UNCHANGED ended
    /\ UNCHANGED <<single_test, interval, results, file_exists, fileOnDisk, fileRows,
                   fileInit, testLog, saveLog, interruptedAt>>
    /\ UNCHANGED uploadVars

\* a mutant of KeyboardInterrupt: the handler of line 150 is missing
KeyboardInterrupt_Uncaught ==
    /\ pc \in InLoop \cup {"check", "banner"}
    /\ pc' = "end"
    /\ ended' = "KeyboardInterrupt"
    /\ saveLog' = IF pc \in {"save_header", "save_row"}
                  THEN MarkLast(saveLog, "interrupted") ELSE saveLog
    /\ interruptedAt' = pc
    /\ UNCHANGED <<single_test, interval, results, file_exists, fileOnDisk, fileRows,
                   fileInit, events, testLog, slept>>
    /\ UNCHANGED uploadVars

\* The operator's Ctrl+C. KeyboardInterrupt is no Exception, so the handlers of
\* run_speed_test (line 104) and save_results (line 123) let it pass; leaving the
\* with block of line 113 closes the file with the rows written so far. Inside the
\* try of line 141 it is caught at line 150 and the function returns; anywhere else
\* (single-run mode, the check, the banner) it propagates.
KeyboardInterrupt ==
    /\ pc \in InLoop \cup {"check", "banner"}
    /\ pc' = "end"
    /\ ended' = IF ~single_test /\ pc \in InLoop
                THEN "interrupt_return" ELSE "KeyboardInterrupt"
    /\ saveLog' = IF pc \in {"save_header", "save_row"}
                  THEN MarkLast(saveLog, "interrupted") ELSE saveLog
    /\ interruptedAt' = pc
    /\ UNCHANGED <<single_test, interval, results, file_exists, fileOnDisk, fileRows,
                   fileInit, events, testLog, slept>>
    /\ UNCHANGED uploadVars

SpeedNext ==
    \/ check_speedtest_cli
    \/ PrintBanner
    \/ StartTest
    \/ RunSpeedTest
    \/ save_results_open
    \/ save_results_header
    \/ save_results_row
    \/ Sleep
    \/ KeyboardInterrupt

\* =================================================================
\*                        upload.py
\* =================================================================

\* ------------------------------------------------------------------ bounds

\* the *.csv files the source directory may hold
NumFiles == 2
\* the runs one invocation may make, one after the other
MaxRuns == 2

FileNames == <<"a.csv", "b.csv", "c.csv", "d.csv">>
Files == {FileNames[i] : i \in 1..NumFiles}
Invocations == {1, 2}

\* every order in which glob.glob may list the files of S
Orders(S) ==
    {o \in [1..Cardinality(S) -> S] : \A i, j \in 1..Cardinality(S) : o[i] = o[j] => i = j}

\* The runs an invocation may make: run after run when it is the only one; two
\* overlapping invocations make one run each.
RunLimit == IF Cardinality(active) = 1 THEN MaxRuns ELSE 1

\* the file the for loop of line 48 is at
Current(p) == csv_files[p][idx[p]]

\* the entry logging.error writes: what the run was at, and the exception
LogEntry(p, what, exc) == [inv |-> p, run |-> run[p], about |-> what, exc |-> exc]

\* whether this run of invocation p logged an error about what
Logged(p, what) == \E e \in errlog : e.inv = p /\ e.run = run[p] /\ e.about = what

\* the directories and the warehouse before any run, with the invocations act
UploadInit(act) ==
    /\ active = act
    /\ source \in SUBSET Files
    /\ processed = {}
    /\ processedDir \in BOOLEAN
    /\ loads = [f \in Files |-> 0]
    /\ errlog = {}
    /\ upc = [p \in Invocations |-> "idle"]
    /\ run = [p \in Invocations |-> 0]
    /\ csv_files = [p \in Invocations |-> <<>>]
    /\ idx = [p \in Invocations |-> 0]
    /\ fstate = [p \in Invocations |-> [f \in Files |-> "unlisted"]]
    /\ submitted = [p \in Invocations |-> [f \in Files |-> 0]]
    /\ completed = [p \in Invocations |-> [f \in Files |-> 0]]
    /\ uended = [p \in Invocations |-> ""]

\* line 71: the script is started (again): a fresh call of upload_csv_to_bigquery
StartRun(p) ==
    /\ upc[p] \in {"idle", "end"}
    /\ run[p] < RunLimit
    /\ run' = [run EXCEPT ![p] = @ + 1]
    /\ upc' = [upc EXCEPT ![p] = "auth"]
    /\ csv_files' = [csv_files EXCEPT ![p] = <<>>]
    /\ idx' = [idx EXCEPT ![p] = 0]
    /\ fstate' = [fstate EXCEPT ![p] = [f \in Files |-> "unlisted"]]
    /\ submitted' = [submitted EXCEPT ![p] = [f \in Files |-> 0]]
    /\ completed' = [completed EXCEPT ![p] = [f \in Files |-> 0]]
    /\ uended' = [uended EXCEPT ![p] = ""]
    /\ UNCHANGED <<active, source, processed, processedDir, loads, errlog>>
    /\ UNCHANGED speedVars

\* lines 29-34: the credentials and the client; a failure is logged and the
\* function returns
Authenticate(p) ==
    /\ upc[p] = "auth"
    /\ \E ok \in BOOLEAN :
          IF ok
          THEN /\ upc' = [upc EXCEPT ![p] = "exists"]
               /\ UNCHANGED <<errlog, uended>>
          ELSE /\ errlog' = errlog \cup {LogEntry(p, "authenticating", "DefaultCredentialsError")}
               /\ upc' = [upc EXCEPT ![p] = "end"]
               /\ uended' = [uended EXCEPT ![p] = "auth_return"]
    /\ UNCHANGED <<active, source, processed, processedDir, loads, run, csv_files,
                   idx, fstate, submitted, completed>>
    /\ UNCHANGED speedVars

\* line 40: os.path.exists(processed_directory)
CheckProcessedDir(p) ==
    /\ upc[p] = "exists"
    /\ upc' = [upc EXCEPT ![p] = IF processedDir THEN "glob" ELSE "makedirs"]
    /\ UNCHANGED <<active, source, processed, processedDir, loads, errlog, run,
                   csv_files, idx, fstate, submitted, completed, uended>>
    /\ UNCHANGED speedVars

\* line 41: os.makedirs(processed_directory), outside every try: when it raises
\* (the directory cannot be created, or exists by now) the exception leaves the
\* function
Makedirs(p) ==
    /\ upc[p] = "makedirs"
    /\ \E ok \in BOOLEAN :
          IF ok /\ ~processedDir
          THEN /\ processedDir' = TRUE
               /\ upc' = [upc EXCEPT ![p] = "glob"]
               /\ UNCHANGED uended
          ELSE /\ upc' = [upc EXCEPT ![p] = "end"]
               /\ uended' = [uended EXCEPT ![p] = "raised"]
               /\ UNCHANGED processedDir
    /\ UNCHANGED <<active, source, processed, loads, errlog, run, csv_files, idx,
                   fstate, submitted, completed>>
    /\ UNCHANGED speedVars

\* line 45: glob.glob lists the *.csv files of the source directory, in any order
Glob(p) ==
    /\ upc[p] = "glob"
    /\ \E order \in Orders(source) :
          /\ csv_files' = [csv_files EXCEPT ![p] = order]
          /\ fstate' = [fstate EXCEPT ![p] =
                           [f \in Files |-> IF f \in source THEN "pending" ELSE "unlisted"]]
          /\ IF order = <<>>
             THEN /\ upc' = [upc EXCEPT ![p] = "end"]
                  /\ uended' = [uended EXCEPT ![p] = "return"]
                  /\ UNCHANGED idx
             ELSE /\ upc' = [upc EXCEPT ![p] = "open"]
                  /\ idx' = [idx EXCEPT ![p] = 1]
                  /\ UNCHANGED uended
    /\ UNCHANGED <<active, source, processed, processedDir, loads, errlog, run, submitted, completed>>
    /\ UNCHANGED speedVars

\* line 48: the for loop goes on to the next file, or ends and the function returns
NextFile(p) ==
    IF idx[p] < Len(csv_files[p])
    THEN /\ idx' = [idx EXCEPT ![p] = @ + 1]
         /\ upc' = [upc EXCEPT ![p] = "open"]
         /\ UNCHANGED uended
    ELSE /\ upc' = [upc EXCEPT ![p] = "end"]
         /\ uended' = [uended EXCEPT ![p] = "return"]
         /\ UNCHANGED idx

\* a mutant of Failed: the handler re-raises, which ends the run at the first failure
Failed_Reraise(p, state, exc) ==
    /\ errlog' = errlog \cup {LogEntry(p, Current(p), exc)}
    /\ fstate' = [fstate EXCEPT ![p][Current(p)] = state]
    /\ upc' = [upc EXCEPT ![p] = "end"]
    /\ uended' = [uended EXCEPT ![p] = "raised"]
    /\ UNCHANGED idx

\* lines 68-69: the handler of the try logs the error; the loop goes on
Failed(p, state, exc) ==
    /\ errlog' = errlog \cup {LogEntry(p, Current(p), exc)}
    /\ fstate' = [fstate EXCEPT ![p][Current(p)] = state]
    /\ NextFile(p)

\* line 60: open(csv_file, "rb"); it raises when the file is no longer there or
\* cannot be read
OpenFile(p) ==
    /\ upc[p] = "open"
    /\ \E ok \in BOOLEAN :
          IF ok /\ Current(p) \in source
          THEN /\ fstate' = [fstate EXCEPT ![p][Current(p)] = "loading"]
               /\ upc' = [upc EXCEPT ![p] = "submit"]
               /\ UNCHANGED <<errlog, idx, uended>>
          ELSE Failed(p, "failed_open",
                      IF Current(p) \in source THEN "PermissionError"
                      ELSE "FileNotFoundError")
    /\ UNCHANGED <<active, source, processed, processedDir, loads, run, csv_files,
                   submitted, completed>>
    /\ UNCHANGED speedVars

\* a mutant of Submit: a failed submission is tried once more before it is given up
Submit_Retry(p) ==
    /\ upc[p] = "submit"
    /\ \E ok \in BOOLEAN :
          IF ok
          THEN /\ submitted' = [submitted EXCEPT ![p][Current(p)] = @ + 1]
               /\ upc' = [upc EXCEPT ![p] = "wait"]
               /\ UNCHANGED <<errlog, idx, fstate, uended>>
          ELSE /\ submitted' = [submitted EXCEPT ![p][Current(p)] = @ + 2]
               /\ Failed(p, "failed_submit", "GoogleAPICallError")
    /\ UNCHANGED <<active, source, processed, processedDir, loads, run, csv_files, completed>>
    /\ UNCHANGED speedVars

\* line 61: client.load_table_from_file receives the file; the with block closes it
Submit(p) ==
    /\ upc[p] = "submit"
    /\ submitted' = [submitted EXCEPT ![p][Current(p)] = @ + 1]
    /\ \E ok \in BOOLEAN :
          IF ok
          THEN /\ upc' = [upc EXCEPT ![p] = "wait"]
               /\ UNCHANGED <<errlog, idx, fstate, uended>>
          ELSE Failed(p, "failed_submit", "GoogleAPICallError")
    /\ UNCHANGED <<active, source, processed, processedDir, loads, run, csv_files, completed>>
    /\ UNCHANGED speedVars

\* a mutant of WaitResult: the file is moved whether or not the job completed
WaitResult_MoveAnyway(p) ==
    /\ upc[p] = "wait"
    /\ \E ok \in BOOLEAN :
          /\ loads' = IF ok THEN [loads EXCEPT ![Current(p)] = @ + 1] ELSE loads
          /\ completed' = IF ok THEN [completed EXCEPT ![p][Current(p)] = @ + 1]
                          ELSE completed
          /\ upc' = [upc EXCEPT ![p] = "move"]
          /\ UNCHANGED <<errlog, idx, fstate, uended>>
    /\ UNCHANGED <<active, source, processed, processedDir, run, csv_files, submitted>>
    /\ UNCHANGED speedVars

\* line 64: job.result() returns when the warehouse completed the load, or raises
WaitResult(p) ==
    /\ upc[p] = "wait"
    /\ \E ok \in BOOLEAN :
          IF ok
          THEN /\ loads' = [loads EXCEPT ![Current(p)] = @ + 1]
               /\ completed' = [completed EXCEPT ![p][Current(p)] = @ + 1]
               /\ upc' = [upc EXCEPT ![p] = "move"]
               /\ UNCHANGED <<errlog, idx, fstate, uended>>
          ELSE /\ Failed(p, "failed_wait", "GoogleAPICallError")
               /\ UNCHANGED <<loads, completed>>
    /\ UNCHANGED <<active, source, processed, processedDir, run, csv_files, submitted>>
    /\ UNCHANGED speedVars

\* a mutant of Move: the file is copied to the processed directory, not renamed
Move_Copy(p) ==
    /\ upc[p] = "move"
    /\ \E ok \in BOOLEAN :
          IF ok /\ Current(p) \in source /\ processedDir
          THEN /\ processed' = processed \cup {Current(p)}
               /\ fstate' = [fstate EXCEPT ![p][Current(p)] = "moved"]
               /\ NextFile(p)
               /\ UNCHANGED <<source, errlog>>
          ELSE /\ Failed(p, "failed_move",
                         IF Current(p) \in source THEN "OSError"
                         ELSE "FileNotFoundError")
               /\ UNCHANGED <<source, processed>>
    /\ UNCHANGED <<active, processedDir, loads, run, csv_files, submitted, completed>>
    /\ UNCHANGED speedVars

\* lines 65-66: os.rename into the processed directory; it raises when the file
\* is no longer in the source directory or the rename is refused
Move(p) ==
    /\ upc[p] = "move"
    /\ \E ok \in BOOLEAN :
          IF ok /\ Current(p) \in source /\ processedDir
          THEN /\ source' = source \ {Current(p)}
               /\ processed' = processed \cup {Current(p)}
               /\ fstate' = [fstate EXCEPT ![p][Current(p)] = "moved"]
               /\ NextFile(p)
               /\ UNCHANGED errlog
          ELSE /\ Failed(p, "failed_move",
                         IF Current(p) \in source THEN "OSError"
                         ELSE "FileNotFoundError")
               /\ UNCHANGED <<source, processed>>
    /\ UNCHANGED <<active, processedDir, loads, run, csv_files, submitted, completed>>
    /\ UNCHANGED speedVars

UploadNext ==
    \/ \E p \in active : StartRun(p)
    \/ \E p \in active : Authenticate(p)
    \/ \E p \in active : CheckProcessedDir(p)
    \/ \E p \in active : Makedirs(p)
    \/ \E p \in active : Glob(p)
    \/ \E p \in active : OpenFile(p)
    \/ \E p \in active : Submit(p)
    \/ \E p \in active : WaitResult(p)
    \/ \E p \in active : Move(p)

\* the uploader when only the logger runs
UploadQuiet ==
    /\ UploadInit({})
    /\ source = {}
    /\ processedDir = FALSE

\* the logger when only the uploader runs
SpeedQuiet ==
    /\ SpeedInit
    /\ single_test = TRUE
    /\ interval = 0
    /\ fileOnDisk = FALSE

\* the logger starts; the uploader does not run
InitSpeed == SpeedInit /\ UploadQuiet

\* one invocation of the uploader; the logger does not run
InitUpload == UploadInit({1}) /\ SpeedQuiet

\* two invocations of the uploader; the logger does not run
InitConcurrent == UploadInit(Invocations) /\ SpeedQuiet

\* speedtest.py alone
SpecSpeed == InitSpeed /\ [][SpeedNext]_vars

\* speedtest.py, when every step that can be taken is taken in the end: the tool
\* and the file system answer, the sleep ends; the operator need not interrupt
FairSpecSpeed ==
    SpecSpeed /\ WF_vars(check_speedtest_cli) /\ WF_vars(PrintBanner) /\ WF_vars(StartTest)
              /\ WF_vars(RunSpeedTest) /\ WF_vars(save_results_open) /\ WF_vars(save_results_header)
              /\ WF_vars(save_results_row) /\ WF_vars(Sleep)

\* upload.py, one invocation at a time, run after run
SpecUpload == InitUpload /\ [][UploadNext]_vars

\* upload.py, two invocations that may overlap
SpecConcurrent == InitConcurrent /\ [][UploadNext]_vars


\* =================================================================
\*                 properties of speedtest.py
\* =================================================================

\* the rows of the save_results calls that wrote their row, in call order
SavedRows ==
    LET saved == SelectSeq(saveLog, LAMBDA e : e.status = "saved")
    IN  [i \in 1..Len(saved) |-> DataRow(saved[i].rec)]

\* the rows of all save_results calls, in call order
CalledRows == [i \in 1..Len(saveLog) |-> DataRow(saveLog[i].rec)]

\* the tests that returned a record, in call order
ReturnedRecords ==
    LET good == SelectSeq(testLog, LAMBDA t : t.returned # None)
    IN  [i \in 1..Len(good) |-> good[i].returned[1]]

\* the tool did not deliver what run_speed_test needs
ToolFailed(tool) ==
    \/ tool.kind \in {"missing", "nonzero", "notjson"}
    \/ \E k \in RequiredKeys : k \notin tool.keys

CountOf(seq, x) == Cardinality({i \in 1..Len(seq) : seq[i] = x})

\* ---------------------------------------------------------------- C2

\* C2 as stated: from a nonexistent file, after any N >= 1 save_results calls the
\* file is one header row followed by the N records in call order.
C2_Original ==
    (/\ ~fileInit.onDisk
     /\ Len(saveLog) >= 1
     /\ interruptedAt = ""
     /\ \A i \in 1..Len(saveLog) : saveLog[i].status # "running")
    => fileRows = <<HeaderRow>> \o CalledRows

\* C2, amended: the file is always the rows it held at the start, then at most one
\* header (only when the file did not exist at the start), then the rows of the
\* save_results calls whose write succeeded, in call order: no call alters or
\* moves an earlier row or writes a second header, a call adds one row at the end
\* when its write succeeds and none when it fails; and from a nonexistent file,
\* N >= 1 calls that all succeeded leave exactly one header and the N rows.
C2_AppendOnlyOneHeader ==
    \E h \in {<<>>, <<HeaderRow>>} :
        /\ fileRows = fileInit.rows \o h \o SavedRows
        /\ h # <<>> => ~fileInit.onDisk
        /\ (/\ ~fileInit.onDisk
            /\ Len(saveLog) >= 1
            /\ \A i \in 1..Len(saveLog) : saveLog[i].status = "saved")
           => h = <<HeaderRow>>

\* C2's case: two calls on a file that did not exist, the second on the file the
\* first created
C2_Witness ==
    /\ ~fileInit.onDisk
    /\ Len(saveLog) = 2
    /\ \A i \in 1..Len(saveLog) : saveLog[i].status = "saved"
    /\ fileRows = <<HeaderRow>> \o CalledRows
    /\ CalledRows[1] # CalledRows[2]

\* ---------------------------------------------------------------- C3

\* C3 as stated: a single run that ends has made exactly one run_speed_test call
\* followed by exactly one save_results call.
C3_Original ==
    (single_test /\ pc = "end" /\ interruptedAt = "") => events = <<"test", "save">>

C3_Inv ==
    single_test =>
        /\ slept = <<>> /\ pc # "sleep" /\ CountOf(events, "sleep") = 0
        /\ events \in {<<>>, <<"test">>, <<"test", "save">>}
        /\ ended \in {"", "return", "no_tool_return", "KeyboardInterrupt"}
        /\ ended = "no_tool_return" => events = <<>>
        /\ ended = "return" =>
              /\ Len(testLog) = 1
              /\ events[1] = "test"
              /\ Len(events) = 2 <=> testLog[1].returned # None

\* C3, amended: with the single-run flag set run_scheduled_tests never sleeps and
\* makes at most one run_speed_test call and at most one save_results call, the
\* save after the test; no call at all when the tool is missing; when it returns
\* after a test it made exactly one test, and one save exactly when the test
\* returned a record; and it ends in every case.
C3_SingleRunOnceAndEnds ==
    /\ []C3_Inv
    /\ single_test ~> (pc = "end")

\* C3's case: a single run that tested, saved and returned
C3_Witness ==
    /\ single_test
    /\ ended = "return"
    /\ events = <<"test", "save">>
    /\ saveLog[1].status = "saved"

\* ---------------------------------------------------------------- C4

C4_Inv ==
    ~single_test =>
        /\ \A i \in 1..Len(events) :
              /\ events[i] = "sleep" => i > 1 /\ events[i - 1] \in {"test", "save"}
              /\ events[i] = "test" /\ i > 1 => events[i - 1] = "sleep"
              /\ events[i] = "save" => i > 1 /\ events[i - 1] = "test"
        /\ Len(slept) = CountOf(events, "sleep")
        /\ \A i \in 1..Len(slept) : slept[i] = interval
        /\ pc = "sleep" =>
              /\ Len(testLog) = TestCalls
              /\ events[Len(events)] \in {"test", "save"}
              /\ \A i \in 1..Len(saveLog) : saveLog[i].status # "running"
        /\ (interval >= 0 /\ ended # "no_tool_return" /\ interruptedAt = "") => pc # "end"

C5_FailedTestReturnsNone ==
    /\ ended \notin {"FileNotFoundError", "CalledProcessError", "JSONDecodeError", "KeyError"}
    /\ (pc # "in_test" /\ interruptedAt # "in_test") => Len(testLog) = TestCalls
    /\ \A i \in 1..Len(testLog) :
          IF ToolFailed(testLog[i].tool)
          THEN testLog[i].returned = None
          ELSE /\ testLog[i].returned # None
               /\ DOMAIN testLog[i].returned[1] = {CSV_FIELDS[k] : k \in 1..Len(CSV_FIELDS)}
    /\ Len(saveLog) <= Len(ReturnedRecords)
    /\ \A j \in 1..Len(saveLog) : saveLog[j].rec = ReturnedRecords[j]
    /\ pc \in {"save", "save_header", "save_row"} =>
          /\ Len(testLog) = TestCalls
          /\ testLog[Len(testLog)].returned # None
    /\ Len(SavedRows) <= Len(ReturnedRecords)

\* C5's case: every kind of failure happened, each cycle without a save, and a
\* good test after them was saved
C5_Witness ==
    /\ Len(testLog) = MaxCycles
    /\ ToolFailed(testLog[1].tool) /\ testLog[1].tool.kind = "json"
    /\ testLog[2].tool.kind = "missing"
    /\ ~ToolFailed(testLog[Len(testLog)].tool)
    /\ Len(saveLog) = 1
    /\ saveLog[1].status = "saved"

\* ---------------------------------------------------------------- C6

\* C6: in scheduled mode an interrupt that arrives inside the loop (in a test, in
\* a save or in the sleep) ends run_scheduled_tests by a return, and every row
\* save_results wrote is in the file, after the rows the file started with.
C6_InterruptEndsCleanly ==
    (~single_test /\ interruptedAt \in InLoop) =>
        /\ pc = "end"
        /\ ended = "interrupt_return"
        /\ Len(fileRows) >= Len(fileInit.rows) + Len(SavedRows)
        /\ SubSeq(fileRows, 1, Len(fileInit.rows)) = fileInit.rows
        /\ SubSeq(fileRows, Len(fileRows) - Len(SavedRows) + 1, Len(fileRows)) = SavedRows

\* C6's case: the interrupt arrives while save_results writes, after an earlier
\* cycle saved its row
C6_Witness ==
    /\ ~single_test
    /\ interruptedAt = "save_row"
    /\ Len(SavedRows) >= 1
    /\ ended = "interrupt_return"


\* =================================================================
\*                   properties of upload.py
\* =================================================================

\* the files glob.glob listed for this run of invocation p
Listed(p) == {csv_files[p][i] : i \in 1..Len(csv_files[p])}

\* the states in which the loop is done with a file
Terminal == {"moved", "failed_open", "failed_submit", "failed_wait", "failed_move"}

\* the failed-logged states
FailedStates == Terminal \ {"moved"}

\* the errors this run of invocation p logged
RunErrors(p) == {e \in errlog : e.inv = p /\ e.run = run[p]}

\* ---------------------------------------------------------------- C1

\* C1 as stated: after a run, every file the source directory held has received
\* exactly one load submission.
C1_Original ==
    \A p \in active :
        uended[p] = "return" => \A f \in Listed(p) : submitted[p][f] = 1

\* C1, amended: in one run every file receives at most one load submission:
\* exactly one when the loop reaches it and opens it, none when open raises (the
\* file is logged and left in place) or when the run ended before the loop (see
\* C7). Whatever happens to the other files: every listed file is attempted
\* before the run ends; a file whose load and move succeeded is out of the source
\* directory and in the processed directory; a file whose open, load, wait or
\* move raised is logged, still in the source directory and not in the processed
\* directory. A run without any failure submits exactly |S| loads and leaves no
\* file of S in the source directory.
C1_PerFileIsolation ==
    \A p \in active :
        /\ \A f \in Files :
              /\ submitted[p][f] <= 1
              /\ f \notin Listed(p) => submitted[p][f] = 0 /\ fstate[p][f] = "unlisted"
              /\ fstate[p][f] \in {"moved", "failed_submit", "failed_wait", "failed_move"}
                    => submitted[p][f] = 1
              /\ fstate[p][f] \in {"pending", "failed_open"} => submitted[p][f] = 0
              /\ fstate[p][f] = "moved" => f \notin source /\ f \in processed
              /\ fstate[p][f] \in FailedStates =>
                    /\ f \in source
                    /\ f \notin processed
                    /\ Logged(p, f)
              /\ (upc[p] = "end" /\ f \in Listed(p)) => fstate[p][f] \in Terminal
        /\ uended[p] \in {"raised", "auth_return"} => Listed(p) = {}
        /\ (uended[p] = "return" /\ RunErrors(p) = {}) =>
              /\ \A f \in Listed(p) : submitted[p][f] = 1 /\ f \notin source
              /\ source = {}

\* C1's case: the load of the first file raised, the second file was still
\* loaded and moved
C1_Witness ==
    /\ uended[1] = "return"
    /\ Len(csv_files[1]) = 2
    /\ fstate[1][csv_files[1][1]] = "failed_wait"
    /\ fstate[1][csv_files[1][2]] = "moved"
    /\ csv_files[1][1] \in source
    /\ csv_files[1][2] \in processed

\* ---------------------------------------------------------------- C7

\* C7 as stated: no exception leaves upload_csv_to_bigquery, and a run that ends
\* before it attempted every file of the source directory had an authentication
\* failure.
C7_OnlyAuthenticationIsFatal ==
    \A p \in active :
        /\ uended[p] # "raised"
        /\ (upc[p] = "end" /\ uended[p] # "auth_return") =>
              \A f \in source : fstate[p][f] \in Terminal

\* ---------------------------------------------------------------- C8

C8_Inv ==
    \A p \in active : \A f \in Files :
        /\ submitted[p][f] <= 1
        /\ completed[p][f] <= submitted[p][f]
        /\ f \in processed => f \notin source /\ loads[f] >= 1
        /\ fstate[p][f] = "failed_move" =>
              /\ completed[p][f] = 1
              /\ loads[f] >= 1
              /\ f \in source
        /\ loads[f] <= run[p]
        /\ (f \in source /\ (upc[p] \in {"open", "submit", "wait", "move"}
                             \/ uended[p] = "return")) => f \in Listed(p)

\* within one run a file that reached moved or failed-logged stays there, and a
\* file that left pending does not come back to it
C8_NoWayBack ==
    \A p \in active : \A f \in Files :
        run'[p] = run[p] =>
            /\ fstate[p][f] \in Terminal => fstate'[p][f] = fstate[p][f]
            /\ fstate[p][f] = "loading" => fstate'[p][f] # "pending"

\* C8: at-least-once, not exactly-once. Within one run a file is submitted at
\* most once and never goes back to pending. A file whose load completed and
\* whose move failed stays in the source directory, so that the next run lists it
\* and submits it again: the warehouse can complete more than one load of the
\* same file. A file in the processed directory has at least one completed load.
C8_AtLeastOnce ==
    /\ []C8_Inv
    /\ [][C8_NoWayBack]_vars

\* C8's case: the first run loaded the file and failed to move it, the second
\* run loaded it again and moved it
C8_Witness ==
    \E f \in Files :
        /\ run[1] = 2
        /\ loads[f] = 2
        /\ [inv |-> 1, run |-> 1, about |-> f, exc |-> "OSError"] \in errlog
        /\ fstate[1][f] = "moved"
        /\ f \in processed

\* ---------------------------------------------------------------- C9

C9_Inv ==
    \A f \in Files :
        /\ ~(fstate[1][f] = "moved" /\ fstate[2][f] = "moved")
        /\ f \in processed => f \notin source
        /\ loads[f] <= run[1] + run[2]
        /\ \A p \in active : fstate[p][f] \in FailedStates => Logged(p, f)

\* an invocation that comes to move a file the other one has moved fails on it
\* and logs the error
C9_SecondMoveFails ==
    \A p \in active :
        (upc[p] = "move" /\ Current(p) \notin source /\ upc'[p] # "move") =>
            /\ fstate'[p][Current(p)] = "failed_move"
            /\ LogEntry(p, Current(p), "FileNotFoundError") \in errlog'
            /\ processed' = processed

\* C9: nothing keeps two overlapping invocations apart: both can list the same
\* file and both load it (the witness), and then the file is moved once only:
\* the invocation whose move comes second fails on the file and logs an error.
C9_OverlapDoubleLoads ==
    /\ []C9_Inv
    /\ [][C9_SecondMoveFails]_vars

\* C9's case: both invocations loaded the same file, the first moved it, the
\* second failed to and logged it
C9_Witness ==
    \E f \in Files :
        /\ submitted[1][f] = 1 /\ submitted[2][f] = 1
        /\ completed[1][f] = 1 /\ completed[2][f] = 1
        /\ loads[f] = 2
        /\ fstate[1][f] = "moved"
        /\ fstate[2][f] = "failed_move"
        /\ errlog = {LogEntry(2, f, "FileNotFoundError")}

\* ---------------------------------------------------------------- C10

\* C10: in a run the steps of a file come in the order open, submit, wait, move,
\* one file at a time: a file is moved only after its own load was submitted and
\* job.result() returned; the files before the current one are moved or
\* failed-logged, the files after it are untouched.
C10_LoadBeforeMove ==
    \A p \in active :
        /\ \A f \in Files :
              /\ completed[p][f] <= submitted[p][f]
              /\ submitted[p][f] <= 1
              /\ fstate[p][f] = "moved" =>
                    /\ submitted[p][f] = 1
                    /\ completed[p][f] = 1
                    /\ loads[f] >= 1
                    /\ f \in processed
              /\ (f \in Listed(p) /\ fstate[p][f] \in {"pending", "loading"}
                  /\ upc[p] # "move") => completed[p][f] = 0
        /\ Cardinality({f \in Files : fstate[p][f] = "loading"}) <= 1
        /\ upc[p] \in {"open", "submit", "wait", "move"} =>
              /\ idx[p] \in 1..Len(csv_files[p])
              /\ upc[p] = "open" =>
                    /\ fstate[p][Current(p)] = "pending"
                    /\ submitted[p][Current(p)] = 0
              /\ upc[p] = "submit" =>
                    /\ fstate[p][Current(p)] = "loading"
                    /\ submitted[p][Current(p)] = 0
              /\ upc[p] = "wait" =>
                    /\ fstate[p][Current(p)] = "loading"
                    /\ submitted[p][Current(p)] = 1
                    /\ completed[p][Current(p)] = 0
              /\ upc[p] = "move" =>
                    /\ fstate[p][Current(p)] = "loading"
                    /\ submitted[p][Current(p)] = 1
                    /\ completed[p][Current(p)] = 1
              /\ \A i \in 1..Len(csv_files[p]) :
                    /\ i < idx[p] => fstate[p][csv_files[p][i]] \in Terminal
                    /\ i > idx[p] =>
                          /\ fstate[p][csv_files[p][i]] = "pending"
                          /\ submitted[p][csv_files[p][i]] = 0

\* C10's case: the first file is moved, the second one's load completed and it
\* is about to be moved
C10_Witness ==
    \E p \in active :
        /\ upc[p] = "move"
        /\ idx[p] = 2
        /\ fstate[p][csv_files[p][1]] = "moved"
        /\ completed[p][Current(p)] = 1

====
